---- MODULE Spec2Model ----
(***************************************************************************)
(* Motion-Link: the vision hook (useMediaPipe), the render-frame callbacks *)
(* of the rigged avatar (RiggedAvatar, CyberLimb, CyberJoint, SkeletonLine, *)
(* CyberHand) and the browser's animation-frame scheduling between them.   *)
(*                                                                         *)
(* Numbers.  World coordinates are fixed-point integers in units of 0.001  *)
(* (a world length of 1.0 is 1000); landmark coordinates are integers in   *)
(* units of 0.01 (a normalized 1.0 is 100).  A product that does not land  *)
(* on the grid is rounded to the nearest grid point, as the floating-point *)
(* arithmetic of the program rounds to the nearest representable number.   *)
(***************************************************************************)
EXTENDS Integers, Sequences, FiniteSets, TLC

(* ------------------------------------------------------------------ *)
(* Bounds of the model                                                 *)
(* ------------------------------------------------------------------ *)

\* The detector delivers at most this many new results; afterwards every
\* detection step fails or is skipped (a stalled detector).
MaxResults == 3

(* ------------------------------------------------------------------ *)
(* Vector3 arithmetic (three.js), on <<x, y, z>>                       *)
(* ------------------------------------------------------------------ *)

Abs(n) == IF n < 0 THEN -n ELSE n

\* n / d rounded to the nearest integer (d > 0).
RoundDiv(n, d) == (2 * n + d) \div (2 * d)

Zero3 == <<0, 0, 0>>

addVectors(a, b) == <<a[1] + b[1], a[2] + b[2], a[3] + b[3]>>

subVectors(a, b) == <<a[1] - b[1], a[2] - b[2], a[3] - b[3]>>

\* v.multiplyScalar(0.5)
halfVector(v) == <<RoundDiv(v[1], 2), RoundDiv(v[2], 2), RoundDiv(v[3], 2)>>

\* new Vector3().addVectors(a, b).multiplyScalar(0.5)
midpoint(a, b) == halfVector(addVectors(a, b))

distanceToSquared(a, b) ==
    LET d == subVectors(a, b) IN d[1] * d[1] + d[2] * d[2] + d[3] * d[3]

RECURSIVE SqrtSearch(_, _, _)
\* The largest r in lo..hi with r * r <= n.
SqrtSearch(n, lo, hi) ==
    IF lo >= hi THEN lo
    ELSE LET m == (lo + hi + 1) \div 2
         IN IF m * m <= n THEN SqrtSearch(n, m, hi) ELSE SqrtSearch(n, lo, m - 1)

\* Math.sqrt, rounded to the nearest grid point.
Sqrt(n, lo, hi) ==
    LET r == SqrtSearch(n, lo, hi)
    IN IF n - r * r > r THEN r + 1 ELSE r

Max3(a, b, c) ==
    IF a >= b THEN (IF a >= c THEN a ELSE c) ELSE (IF b >= c THEN b ELSE c)

\* a.distanceTo(b); the root lies between the largest component of the
\* difference and the sum of the three.
distanceTo(a, b) ==
    LET dx == Abs(a[1] - b[1])
        dy == Abs(a[2] - b[2])
        dz == Abs(a[3] - b[3])
    IN Sqrt(dx * dx + dy * dy + dz * dz, Max3(dx, dy, dz), dx + dy + dz)

(* ------------------------------------------------------------------ *)
(* Optional values: null is <<>>, a present value v is <<v>>           *)
(* ------------------------------------------------------------------ *)

Null == <<>>

Some(v) == <<v>>

(* ------------------------------------------------------------------ *)
(* Coordinate mapping and smoothing (RiggedAvatar)                     *)
(* ------------------------------------------------------------------ *)

\* World units in 1.0
WORLD_HEIGHT == 2000

WORLD_WIDTH == 1600

\* The depth factor 0.8, in world units per 1.0
DEPTH_SCALE == 800

\* lm.z || 0
zOrZero(lm) == IF "z" \in DOMAIN lm THEN lm.z ELSE 0

\* mapPoseToWorld: a landmark (units of 0.01) to a world position.
mapPoseToWorld(lm) ==
    << RoundDiv((lm.x - 50) * (-WORLD_WIDTH), 100),
       RoundDiv((100 - lm.y) * WORLD_HEIGHT, 100),
       RoundDiv(zOrZero(lm) * (-DEPTH_SCALE), 100) >>

\* LERP_SPEED = 0.8 = LERP_NUM / LERP_DEN
LERP_NUM == 4

LERP_DEN == 5

\* this.x += (v.x - this.x) * alpha, one component
lerpComponent(from, to) == from + RoundDiv((to - from) * LERP_NUM, LERP_DEN)

\* A plausible slip: the operands of the subtraction swapped, so that the
\* joint moves away from its target.
lerpAway(cur, target) ==
    << cur[1] + RoundDiv((cur[1] - target[1]) * LERP_NUM, LERP_DEN),
       cur[2] + RoundDiv((cur[2] - target[2]) * LERP_NUM, LERP_DEN),
       cur[3] + RoundDiv((cur[3] - target[3]) * LERP_NUM, LERP_DEN) >>

\* A plausible slip: a blend factor above 1 (1.2), which still converges but
\* passes the target.
lerpOvershoot(cur, target) ==
    [k \in 1..3 |-> cur[k] + RoundDiv((target[k] - cur[k]) * 6, 5)]

\* Vector3.lerp(target, LERP_SPEED)
lerp(cur, target) ==
    << lerpComponent(cur[1], target[1]),
       lerpComponent(cur[2], target[2]),
       lerpComponent(cur[3], target[3]) >>

\* The tracked joints with the landmark index each is updated from.
JointIndex ==
    [ nose |-> 0,
      leftShoulder |-> 11, rightShoulder |-> 12,
      leftElbow |-> 13, rightElbow |-> 14,
      leftWrist |-> 15, rightWrist |-> 16,
      leftHip |-> 23, rightHip |-> 24,
      leftKnee |-> 25, rightKnee |-> 26,
      leftAnkle |-> 27, rightAnkle |-> 28 ]

JointNames == DOMAIN JointIndex

\* The refs' initial values (T-pose).
RestPose ==
    [ nose |-> <<0, 1700, 0>>,
      leftShoulder |-> <<-200, 1500, 0>>, rightShoulder |-> <<200, 1500, 0>>,
      leftElbow |-> <<-450, 1500, 0>>, rightElbow |-> <<450, 1500, 0>>,
      leftWrist |-> <<-700, 1500, 0>>, rightWrist |-> <<700, 1500, 0>>,
      leftHip |-> <<-100, 900, 0>>, rightHip |-> <<100, 900, 0>>,
      leftKnee |-> <<-100, 500, 0>>, rightKnee |-> <<100, 500, 0>>,
      leftAnkle |-> <<-100, 100, 0>>, rightAnkle |-> <<100, 100, 0>> ]

(* ------------------------------------------------------------------ *)
(* Object3D poses                                                      *)
(* ------------------------------------------------------------------ *)

\* An orientation is the direction the object's +Z axis was pointed at by
\* lookAt (unnormalized), followed by rotX quarter turns about its X axis.
\* Object3D.lookAt(target) of an object at position: three.js falls back to
\* +Z when the two coincide.
lookDirection(position, target) ==
    IF target = position THEN <<0, 0, 1>> ELSE subVectors(target, position)

\* A freshly constructed Object3D: origin, identity rotation, unit scale.
DefaultPose == [position |-> Zero3, lookDir |-> <<0, 0, 1>>, rotX |-> 0, scaleY |-> 1000]

(* ------------------------------------------------------------------ *)
(* The avatar's scene objects                                          *)
(* ------------------------------------------------------------------ *)

\* <CyberJoint pos={...}/> in JSX order.
CyberJoints ==
    << "leftShoulder", "leftElbow", "rightShoulder", "rightElbow",
       "leftHip", "leftKnee", "rightHip", "rightKnee",
       "leftAnkle", "rightAnkle" >>

\* <CyberLimb startPos={...} endPos={...}/> in JSX order.
CyberLimbs ==
    << [startPos |-> "leftShoulder", endPos |-> "leftElbow", type |-> "Arm"],
       [startPos |-> "leftElbow", endPos |-> "leftWrist", type |-> "Forearm"],
       [startPos |-> "rightShoulder", endPos |-> "rightElbow", type |-> "Arm"],
       [startPos |-> "rightElbow", endPos |-> "rightWrist", type |-> "Forearm"],
       [startPos |-> "leftHip", endPos |-> "leftKnee", type |-> "Thigh"],
       [startPos |-> "leftKnee", endPos |-> "leftAnkle", type |-> "Shin"],
       [startPos |-> "rightHip", endPos |-> "rightKnee", type |-> "Thigh"],
       [startPos |-> "rightKnee", endPos |-> "rightAnkle", type |-> "Shin"] >>

\* <SkeletonLine start={...} end={...}/> in JSX order.
SkeletonLines ==
    << [start |-> "shoulderMid", end |-> "leftShoulder"],
       [start |-> "shoulderMid", end |-> "rightShoulder"],
       [start |-> "leftShoulder", end |-> "leftElbow"],
       [start |-> "rightShoulder", end |-> "rightElbow"],
       [start |-> "leftElbow", end |-> "leftWrist"],
       [start |-> "rightElbow", end |-> "rightWrist"],
       [start |-> "shoulderMid", end |-> "hipMid"],
       [start |-> "hipMid", end |-> "leftHip"],
       [start |-> "hipMid", end |-> "rightHip"],
       [start |-> "leftHip", end |-> "leftKnee"],
       [start |-> "rightHip", end |-> "rightKnee"],
       [start |-> "leftKnee", end |-> "leftAnkle"],
       [start |-> "rightKnee", end |-> "rightAnkle"] >>

\* <CyberHand poseWrist={...} side={...}/>
Sides == {"Left", "Right"}

poseWristOf(side) == IF side = "Left" THEN "leftWrist" ELSE "rightWrist"

\* The hand's bones: pairs of hand landmark indices (0..20).
connections ==
    << <<0, 1>>, <<1, 2>>, <<2, 3>>, <<3, 4>>,
       <<0, 5>>, <<5, 6>>, <<6, 7>>, <<7, 8>>,
       <<0, 9>>, <<9, 10>>, <<10, 11>>, <<11, 12>>,
       <<0, 13>>, <<13, 14>>, <<14, 15>>, <<15, 16>>,
       <<0, 17>>, <<17, 18>>, <<18, 19>>, <<19, 20>>,
       <<5, 9>>, <<9, 13>>, <<13, 17>>, <<0, 5>>, <<0, 17>> >>

\* A limb: the group's position and orientation, the inner frame's scale.y and
\* rotation.x (quarter turns), the armor's rotation.x.
DefaultLimb ==
    [position |-> Zero3, lookDir |-> <<0, 0, 1>>, scaleY |-> 1000,
     frameRotX |-> 0, armorRotX |-> 0]

\* A hand sub-rig: the group's visibility, its 25 bone meshes, and the value
\* the callback's local handLandmarks had when it last ran.
DefaultHand ==
    [visible |-> TRUE,
     bones |-> [i \in 1..Len(connections) |-> DefaultPose],
     handLandmarks |-> Null]

\* The state after RiggedAvatar and its children have mounted.
InitAvatar ==
    [ joints |-> RestPose,
      shoulderMid |-> Zero3,
      hipMid |-> Zero3,
      headRef |-> DefaultPose,
      chestRef |-> DefaultPose,
      pelvisRef |-> DefaultPose,
      spineRef |-> DefaultPose,
      jointGroups |-> [i \in 1..Len(CyberJoints) |-> Zero3],
      limbs |-> [i \in 1..Len(CyberLimbs) |-> DefaultLimb],
      lines |-> [i \in 1..Len(SkeletonLines) |-> DefaultPose],
      hands |-> [s \in Sides |-> DefaultHand] ]

\* ref.current of a joint ref or of a derived anchor.
refCurrent(av, name) ==
    IF name = "shoulderMid" THEN av.shoulderMid
    ELSE IF name = "hipMid" THEN av.hipMid
    ELSE av.joints[name]

(* ------------------------------------------------------------------ *)
(* RiggedAvatar's frame callback (the body update)                     *)
(* ------------------------------------------------------------------ *)

\* pose && pose.landmarks && pose.landmarks[0]
hasBody(poseResultsRef) ==
    /\ poseResultsRef # Null
    /\ Len(poseResultsRef[1].landmarks) >= 1

\* A plausible slip: a joint whose landmark is missing is sent to the origin.
updateOrOrigin(cur, lm, index) ==
    IF index \in DOMAIN lm THEN lerp(cur, mapPoseToWorld(lm[index])) ELSE Zero3

\* update(ref, index): blend toward the mapped landmark when the index is there.
update(cur, lm, index) ==
    IF index \in DOMAIN lm THEN lerp(cur, mapPoseToWorld(lm[index])) ELSE cur

\* The head is placed 0.05 below the nose and looks at (shoulderMid.x,
\* shoulderMid.y, 5).
headPose(nosePos, sMid) ==
    LET p == addVectors(nosePos, <<0, -50, 0>>)
    IN [position |-> p, lookDir |-> lookDirection(p, <<sMid[1], sMid[2], 5000>>),
        rotX |-> 0, scaleY |-> 1000]

chestPose(sMid, hMid) ==
    [position |-> sMid, lookDir |-> lookDirection(sMid, hMid),
     rotX |-> -1, scaleY |-> 1000]

pelvisPose(hMid, rightHipPos) ==
    [position |-> hMid, lookDir |-> lookDirection(hMid, rightHipPos),
     rotX |-> 0, scaleY |-> 1000]

\* A plausible slip: the spine is scaled to the whole distance.
spinePoseFullLength(sMid, hMid) ==
    LET mid == midpoint(sMid, hMid)
    IN [position |-> mid, lookDir |-> lookDirection(mid, sMid),
        rotX |-> 1, scaleY |-> distanceTo(sMid, hMid)]

\* The spine spans the two anchors, scaled to 0.9 of their distance.
spinePose(sMid, hMid) ==
    LET mid == midpoint(sMid, hMid)
    IN [position |-> mid, lookDir |-> lookDirection(mid, sMid),
        rotX |-> 1, scaleY |-> RoundDiv(distanceTo(sMid, hMid) * 9, 10)]

\* The body of `if (pose && pose.landmarks && pose.landmarks[0])`.
bodyUpdate(av, lm) ==
    LET j == [n \in JointNames |-> update(av.joints[n], lm, JointIndex[n])]
        sMid == midpoint(j.leftShoulder, j.rightShoulder)
        hMid == midpoint(j.leftHip, j.rightHip)
    IN [av EXCEPT !.joints = j,
                  !.shoulderMid = sMid,
                  !.hipMid = hMid,
                  !.headRef = headPose(j.nose, sMid),
                  !.chestRef = chestPose(sMid, hMid),
                  !.pelvisRef = pelvisPose(hMid, j.rightHip),
                  !.spineRef = spinePose(sMid, hMid)]

\* A plausible slip: reset-on-loss instead of freeze-on-loss.
RiggedAvatarFrameReset(av, poseResultsRef) ==
    IF hasBody(poseResultsRef)
    THEN bodyUpdate(av, poseResultsRef[1].landmarks[1])
    ELSE [av EXCEPT !.joints = RestPose]

\* RiggedAvatar's useFrame callback.
RiggedAvatarFrame(av, poseResultsRef) ==
    IF hasBody(poseResultsRef)
    THEN bodyUpdate(av, poseResultsRef[1].landmarks[1])
    ELSE av

(* ------------------------------------------------------------------ *)
(* CyberJoint, CyberLimb, SkeletonLine                                  *)
(* ------------------------------------------------------------------ *)

\* CyberJoint's useFrame callback: ref.current.position.copy(pos.current)
CyberJointFrame(av, i) ==
    [av EXCEPT !.jointGroups[i] = av.joints[CyberJoints[i]]]

\* if (dist < 0.01) return, decided on the squared distance.
LIMB_EPSILON == 10

limbDegenerate(start, end) ==
    distanceToSquared(start, end) < LIMB_EPSILON * LIMB_EPSILON

\* A plausible slip: the group is placed at the start point, not the midpoint.
limbPoseFromStart(start, end) ==
    [position |-> start, lookDir |-> lookDirection(start, end),
     scaleY |-> distanceTo(start, end), frameRotX |-> 1, armorRotX |-> 0]

\* The limb's pose for two endpoints at a non-degenerate distance.
limbPose(start, end) ==
    LET mid == midpoint(start, end)
    IN [position |-> mid, lookDir |-> lookDirection(mid, end),
        scaleY |-> distanceTo(start, end), frameRotX |-> 1, armorRotX |-> 0]

\* A plausible slip: the early return is missing.
CyberLimbFrameNoGuard(av, i) ==
    [av EXCEPT !.limbs[i] =
        limbPose(av.joints[CyberLimbs[i].startPos], av.joints[CyberLimbs[i].endPos])]

\* CyberLimb's useFrame callback.
CyberLimbFrame(av, i) ==
    LET start == av.joints[CyberLimbs[i].startPos]
        end == av.joints[CyberLimbs[i].endPos]
    IN IF limbDegenerate(start, end) THEN av
       ELSE [av EXCEPT !.limbs[i] = limbPose(start, end)]

\* if (dist > 0.001), decided on the squared distance.
LINE_EPSILON == 1

\* The pose of a stretched mesh that is rotated a quarter turn after lookAt
\* (skeleton lines and hand bones).
stretchPose(start, end) ==
    LET mid == midpoint(start, end)
    IN [position |-> mid, lookDir |-> lookDirection(mid, end),
        rotX |-> 1, scaleY |-> distanceTo(start, end)]

\* SkeletonLine's useFrame callback.
SkeletonLineFrame(av, i) ==
    LET s == refCurrent(av, SkeletonLines[i].start)
        e == refCurrent(av, SkeletonLines[i].end)
    IN IF distanceToSquared(s, e) > LINE_EPSILON * LINE_EPSILON
       THEN [av EXCEPT !.lines[i] = stretchPose(s, e)]
       ELSE av

(* ------------------------------------------------------------------ *)
(* CyberHand                                                            *)
(* ------------------------------------------------------------------ *)

\* A hand result holds landmarks (one 21-point hand per detected hand, each a
\* function on 0..20) and handedness (per hand, a list of categories).  The
\* program's arrays are indexed from 0, the sequences here from 1.

RECURSIVE scanHands(_, _, _)
\* The loop `for (i = 0; i < results.landmarks.length; i++)` from index i on:
\* the selected hand, or threw when handedness[i][0] does not exist.
scanHands(results, side, i) ==
    IF i > Len(results.landmarks) THEN [threw |-> FALSE, hand |-> Null]
    ELSE IF i > Len(results.handedness) \/ Len(results.handedness[i]) = 0
         THEN [threw |-> TRUE, hand |-> Null]
    ELSE IF results.handedness[i][1].categoryName = side
         THEN [threw |-> FALSE, hand |-> Some(results.landmarks[i])]
    ELSE scanHands(results, side, i + 1)

\* A plausible slip: the hand is taken by its position in the array (the
\* first for "Left", the second for "Right"), not by its label.
selectHandByPosition(handResults, side) ==
    IF handResults = Null THEN [threw |-> FALSE, hand |-> Null]
    ELSE LET r == handResults[1]
             k == IF side = "Left" THEN 1 ELSE 2
         IN IF k <= Len(r.landmarks)
            THEN [threw |-> FALSE, hand |-> Some(r.landmarks[k])]
            ELSE [threw |-> FALSE, hand |-> Null]

\* "Find correct hand": if (results && results.landmarks) { for ... }
selectHand(handResults, side) ==
    IF handResults = Null THEN [threw |-> FALSE, hand |-> Null]
    ELSE scanHands(handResults[1], side, 1)

\* 2.5, in world units per 1.0
HAND_MAGNIFICATION == 2500

\* worldPoints: each landmark by its offset from the hand's landmark 0 in x
\* and y and by its own z, magnified, added to the pose wrist.
worldPoints(handLandmarks, wrist) ==
    LET rawWrist == handLandmarks[0]
    IN [i \in DOMAIN handLandmarks |->
          LET lm == handLandmarks[i]
              dx == RoundDiv((lm.x - rawWrist.x) * (-HAND_MAGNIFICATION), 100)
              dy == RoundDiv((rawWrist.y - lm.y) * HAND_MAGNIFICATION, 100)
              dz == RoundDiv(zOrZero(lm) * (-HAND_MAGNIFICATION), 100)
          IN <<wrist[1] + dx, wrist[2] + dy, wrist[3] + dz>>]

\* A plausible slip: the bone is blended from its previous position instead
\* of being set.
bonePoseSmoothed(old, start, end) ==
    [stretchPose(start, end) EXCEPT
        !.position = lerp(old.position, midpoint(start, end))]

\* connections.forEach: the bone's pose is set from its two world points.
bonePose(old, start, end) == stretchPose(start, end)

\* A plausible slip: a hidden group is never shown again.
handShownNever(hand, selected, wrist) ==
    IF selected = Null
    THEN [hand EXCEPT !.visible = FALSE, !.handLandmarks = Null]
    ELSE LET pts == worldPoints(selected[1], wrist)
         IN [visible |-> hand.visible,
             handLandmarks |-> selected,
             bones |-> [b \in DOMAIN hand.bones |->
                          bonePose(hand.bones[b], pts[connections[b][1]],
                                   pts[connections[b][2]])]]

\* A plausible slip: hiding the group also resets its bones.
handShownOrReset(hand, selected, wrist) ==
    IF selected = Null
    THEN [visible |-> FALSE, handLandmarks |-> Null,
          bones |-> [b \in DOMAIN hand.bones |-> DefaultPose]]
    ELSE LET pts == worldPoints(selected[1], wrist)
         IN [visible |-> TRUE,
             handLandmarks |-> selected,
             bones |-> [b \in DOMAIN hand.bones |->
                          bonePose(hand.bones[b], pts[connections[b][1]],
                                   pts[connections[b][2]])]]

\* The callback after the selection: hide and return, or show and pose.
handShown(hand, selected, wrist) ==
    IF selected = Null
    THEN [hand EXCEPT !.visible = FALSE, !.handLandmarks = Null]
    ELSE LET pts == worldPoints(selected[1], wrist)
         IN [visible |-> TRUE,
             handLandmarks |-> selected,
             bones |-> [b \in DOMAIN hand.bones |->
                          bonePose(hand.bones[b], pts[connections[b][1]],
                                   pts[connections[b][2]])]]

\* CyberHand's useFrame callback; threw when the selection loop threw.
CyberHandFrame(av, side, handResults) ==
    LET sel == selectHand(handResults, side)
    IN IF sel.threw THEN [threw |-> TRUE, av |-> av]
       ELSE [threw |-> FALSE,
             av |-> [av EXCEPT !.hands[side] =
                       handShown(av.hands[side], sel.hand,
                                 av.joints[poseWristOf(side)])]]

(* ------------------------------------------------------------------ *)
(* Frame callbacks: subscription order and one render frame            *)
(* ------------------------------------------------------------------ *)

HandSides == <<"Left", "Right">>

\* A plausible slip: the body callback registered without its priority.
priorityAllDefault(kind) == 0

\* The second argument of useFrame: -1 for RiggedAvatar, the default 0 for
\* its children.
priority(kind) == IF kind = "RiggedAvatar" THEN -1 ELSE 0

subscriber(kind, id) == [kind |-> kind, id |-> id, priority |-> priority(kind)]

\* subscribe: push, then a stable sort by ascending priority.
subscribe(subs, sub) ==
    LET k == Cardinality({i \in 1..Len(subs) : subs[i].priority <= sub.priority})
    IN SubSeq(subs, 1, k) \o <<sub>> \o SubSeq(subs, k + 1, Len(subs))

RECURSIVE subscribeAll(_, _)
subscribeAll(subs, new) ==
    IF new = <<>> THEN subs
    ELSE subscribeAll(subscribe(subs, Head(new)), Tail(new))

\* unsubscribe: the callbacks of the unmounted components are filtered out.
unsubscribeKind(subs, kind) == SelectSeq(subs, LAMBDA x : x.kind # kind)

\* The children of RiggedAvatar that are always rendered, in JSX order (their
\* layout effects, which subscribe, run in this order).
LimbAndJointMounts ==
    << subscriber("CyberJoint", 1), subscriber("CyberLimb", 1),
       subscriber("CyberJoint", 2), subscriber("CyberLimb", 2),
       subscriber("CyberJoint", 3), subscriber("CyberLimb", 3),
       subscriber("CyberJoint", 4), subscriber("CyberLimb", 4),
       subscriber("CyberJoint", 5), subscriber("CyberLimb", 5),
       subscriber("CyberJoint", 6), subscriber("CyberLimb", 6),
       subscriber("CyberJoint", 7), subscriber("CyberLimb", 7),
       subscriber("CyberJoint", 8), subscriber("CyberLimb", 8),
       subscriber("CyberJoint", 9), subscriber("CyberJoint", 10),
       subscriber("CyberHand", 1), subscriber("CyberHand", 2) >>

SkeletonMounts == [i \in 1..Len(SkeletonLines) |-> subscriber("SkeletonLine", i)]

\* The first mount (showSkeleton is false): the children's effects run
\* before their parent's, so RiggedAvatar subscribes last.
InitSubscribers ==
    subscribeAll(<<>>, LimbAndJointMounts \o <<subscriber("RiggedAvatar", 0)>>)

\* One subscriber's callback.
runCallback(av, sub, handResults, poseResults) ==
    CASE sub.kind = "RiggedAvatar" ->
           [threw |-> FALSE, av |-> RiggedAvatarFrame(av, poseResults)]
      [] sub.kind = "CyberJoint" ->
           [threw |-> FALSE, av |-> CyberJointFrame(av, sub.id)]
      [] sub.kind = "CyberLimb" ->
           [threw |-> FALSE, av |-> CyberLimbFrame(av, sub.id)]
      [] sub.kind = "SkeletonLine" ->
           [threw |-> FALSE, av |-> SkeletonLineFrame(av, sub.id)]
      [] sub.kind = "CyberHand" ->
           CyberHandFrame(av, HandSides[sub.id], handResults)

RECURSIVE runSubscribers(_, _, _, _, _)
\* The loop over the subscribers from position i on; an exception ends it.
runSubscribers(subs, i, av, handResults, poseResults) ==
    IF i > Len(subs) THEN [threw |-> FALSE, av |-> av]
    ELSE LET r == runCallback(av, subs[i], handResults, poseResults)
         IN IF r.threw THEN r
            ELSE runSubscribers(subs, i + 1, r.av, handResults, poseResults)

(* ------------------------------------------------------------------ *)
(* What the detector may return                                        *)
(* ------------------------------------------------------------------ *)

lm3(x, y, z) == [x |-> x, y |-> y, z |-> z]

\* A landmark without depth.
lm2(x, y) == [x |-> x, y |-> y]

\* A body with every tracked index; its left elbow and left wrist coincide.
BodyA ==
    0 :> lm3(50, 14, -20) @@
    11 :> lm3(38, 24, -5) @@ 12 :> lm3(62, 26, -5) @@
    13 :> lm3(30, 38, 0) @@ 14 :> lm3(70, 40, 0) @@
    15 :> lm3(30, 38, 0) @@ 16 :> lm3(78, 50, 10) @@
    23 :> lm3(44, 52, 0) @@ 24 :> lm3(56, 52, 0) @@
    25 :> lm3(43, 70, 5) @@ 26 :> lm3(57, 72, 5) @@
    27 :> lm3(42, 90, 10) @@ 28 :> lm3(58, 92, 10)

\* A body without shoulders and hips, two of its landmarks without depth.
BodyPartial ==
    0 :> lm2(48, 20) @@
    13 :> lm3(25, 30, 5) @@ 14 :> lm3(75, 30, 5) @@
    15 :> lm3(20, 22, -10) @@ 16 :> lm2(80, 22) @@
    25 :> lm3(45, 68, 0) @@ 26 :> lm3(55, 68, 0) @@
    27 :> lm3(45, 88, 0) @@ 28 :> lm3(55, 88, 0)

\* A hand of 21 landmarks: the wrist at (bx, by), finger f's joint k above it;
\* flat makes each fingertip coincide with the joint below it, and noTipZ
\* leaves the fingertips without depth.
handShape(bx, by, spread, flat, noTipZ) ==
    [i \in 0..20 |->
       IF i = 0 THEN lm3(bx, by, 0)
       ELSE LET f == (i - 1) \div 4
                k == ((i - 1) % 4) + 1
                kk == IF flat /\ k = 4 THEN 3 ELSE k
            IN IF noTipZ /\ k = 4
               THEN lm2(bx + (f - 2) * spread, by - 3 * kk)
               ELSE lm3(bx + (f - 2) * spread, by - 3 * kk, -2 * kk)]

category(name) == [categoryName |-> name]

\* What one detection step may deliver: a body with both hands; a partial
\* body with the hands in the other array order; no body and one hand only.
Scenes ==
    { [ pose |-> [landmarks |-> <<BodyA>>],
        hands |-> [landmarks |-> << handShape(30, 60, 2, FALSE, FALSE),
                                    handShape(70, 62, 3, FALSE, TRUE) >>,
                   handedness |-> << <<category("Left")>>, <<category("Right")>> >>] ],
      [ pose |-> [landmarks |-> <<BodyPartial>>],
        hands |-> [landmarks |-> << handShape(75, 40, 2, TRUE, FALSE),
                                    handShape(25, 42, 4, FALSE, FALSE) >>,
                   handedness |-> << <<category("Right")>>, <<category("Left")>> >>] ],
      [ pose |-> [landmarks |-> <<>>],
        hands |-> [landmarks |-> << handShape(60, 50, 3, FALSE, FALSE) >>,
                   handedness |-> << <<category("Right")>> >>] ] }

\* Hand results the result type allows and the rigs cannot label: a
\* handedness list shorter than the landmarks list, and a handedness entry
\* with no category.  Neither comes with a body.
UnlabelledScenes ==
    { [ pose |-> [landmarks |-> <<>>],
        hands |-> [landmarks |-> << handShape(60, 50, 3, FALSE, FALSE) >>,
                   handedness |-> <<>>] ],
      [ pose |-> [landmarks |-> <<>>],
        hands |-> [landmarks |-> << handShape(30, 60, 2, FALSE, FALSE),
                                    handShape(70, 62, 3, FALSE, FALSE) >>,
                   handedness |-> << <<category("Left")>>, <<>> >>] ] }

(* ------------------------------------------------------------------ *)
(* State                                                               *)
(* ------------------------------------------------------------------ *)

VARIABLES
    \* useMediaPipe
    isActive,            \* the effect's closure variable
    cleanedUp,           \* the effect's cleanup has run (the session ended)
    setupPc,             \* where setupMediaPipe / startCamera stand
    isCameraReady,
    error,               \* "null", or which message setError was given
    lastResultsRef,      \* Null or Some(hand result)
    lastPoseRef,         \* Null or Some(pose result)
    handLandmarker,      \* the HandLandmarker object: state, calls (mod 2)
    poseLandmarker,      \* the PoseLandmarker object
    handLandmarkerRef,   \* TRUE when the ref holds the landmarker
    poseLandmarkerRef,
    requestRef,          \* 0, or 1 for the id of the latest request
    stream,              \* the camera stream: "none", "acquired", "attached"
    \* the detector
    resultsLeft,         \* new results the detector will still deliver
    \* the browser's animation frames
    rafQueue,            \* callbacks requested for the next frame, in order
    frameRun,            \* callbacks of the running frame still to run
    \* App and the canvas
    hasStarted,          \* the welcome screen's start button was pressed
    showSkeleton,
    subscribers,         \* the frame callbacks, sorted by priority
    avatar,              \* RiggedAvatar's refs and scene objects
    \* history, read by no action
    handTrail            \* per side, how the rig's visibility has gone so far

hookVars ==
    << isActive, cleanedUp, setupPc, isCameraReady, error, handLandmarkerRef,
       poseLandmarkerRef, stream >>

detectVars ==
    << lastResultsRef, lastPoseRef, handLandmarker, poseLandmarker, requestRef,
       resultsLeft >>

canvasVars == << hasStarted, showSkeleton, subscribers, avatar, handTrail >>

vars ==
    << isActive, cleanedUp, setupPc, isCameraReady, error, lastResultsRef,
       lastPoseRef, handLandmarker, poseLandmarker, handLandmarkerRef,
       poseLandmarkerRef, requestRef, stream, resultsLeft, rafQueue, frameRun,
       hasStarted, showSkeleton, subscribers, avatar, handTrail >>

\* The video element is rendered by App for as long as the hook lives.
videoRef == TRUE

\* The state once App has mounted: the effect has called setupMediaPipe, which
\* awaits the vision fileset; the canvas loop has requested its first frame.
Init ==
    /\ isActive = TRUE
    /\ cleanedUp = FALSE
    /\ setupPc = "forVisionTasks"
    /\ isCameraReady = FALSE
    /\ error = "null"
    /\ lastResultsRef = Null
    /\ lastPoseRef = Null
    /\ handLandmarker = [state |-> "none", calls |-> 0]
    /\ poseLandmarker = [state |-> "none", calls |-> 0]
    /\ handLandmarkerRef = FALSE
    /\ poseLandmarkerRef = FALSE
    /\ requestRef = 0
    /\ stream = "none"
    /\ resultsLeft = MaxResults
    /\ rafQueue = <<"loop">>
    /\ frameRun = <<>>
    /\ hasStarted = FALSE
    /\ showSkeleton = FALSE
    /\ subscribers = InitSubscribers
    /\ avatar = InitAvatar
    /\ handTrail = [s \in Sides |-> "unposed"]

\* No animation frame is running: tasks and events may run.
Idle == frameRun = <<>>

(* ------------------------------------------------------------------ *)
(* useMediaPipe: the detection step                                    *)
(* ------------------------------------------------------------------ *)

\* detectForVideo was called on the landmarker.
called(landmarker) == [landmarker EXCEPT !.calls = 1 - @]

\* A plausible slip: each result is stored as soon as its detection returns.
heldAfterDetectionEager(outcome, scene, held) ==
    IF outcome = "ok" THEN [hands |-> Some(scene.hands), pose |-> Some(scene.pose)]
    ELSE IF outcome = "poseThrows" THEN [hands |-> Some(scene.hands), pose |-> held.pose]
    ELSE held

\* A plausible slip: the catch block clears the held results.
heldAfterDetectionCleared(outcome, scene, held) ==
    IF outcome = "ok" THEN [hands |-> Some(scene.hands), pose |-> Some(scene.pose)]
    ELSE [hands |-> Null, pose |-> Null]

\* A plausible slip: each detection has a try block of its own, so what the
\* one that did not throw returned is stored.
heldAfterDetectionSeparately(outcome, scene, held) ==
    IF outcome = "ok" THEN [hands |-> Some(scene.hands), pose |-> Some(scene.pose)]
    ELSE IF outcome = "poseThrows" THEN [hands |-> Some(scene.hands), pose |-> held.pose]
    ELSE [hands |-> held.hands, pose |-> Some(scene.pose)]

\* The try block: both detections run before either result is stored, so a
\* throw of either leaves both refs as they were.
heldAfterDetection(outcome, scene, held) ==
    IF outcome = "ok" THEN [hands |-> Some(scene.hands), pose |-> Some(scene.pose)]
    ELSE held

\* predictWebcam, whether called by the loadeddata handler or as a frame
\* callback; requested is the queue its own request is appended to, scenes
\* what detectForVideo may return.
detectionStep(scenes, requested) ==
    IF ~videoRef \/ ~handLandmarkerRef \/ ~poseLandmarkerRef \/ ~isActive
    THEN /\ rafQueue' = requested
         /\ UNCHANGED detectVars
    ELSE /\ \/ \* video.videoWidth or video.videoHeight is 0
               UNCHANGED << lastResultsRef, lastPoseRef, handLandmarker,
                            poseLandmarker, resultsLeft >>
            \/ \E outcome \in {"ok", "handThrows", "poseThrows"}, scene \in scenes :
                 /\ outcome = "ok" => resultsLeft > 0
                 /\ LET held == heldAfterDetection(outcome, scene,
                                   [hands |-> lastResultsRef, pose |-> lastPoseRef])
                    IN /\ lastResultsRef' = held.hands
                       /\ lastPoseRef' = held.pose
                 /\ handLandmarker' = called(handLandmarker)
                 /\ poseLandmarker' = IF outcome = "handThrows" THEN poseLandmarker
                                      ELSE called(poseLandmarker)
                 /\ resultsLeft' = IF outcome = "ok" THEN resultsLeft - 1
                                   ELSE resultsLeft
         /\ requestRef' = 1
         /\ rafQueue' = Append(requested, "predictWebcam")

\* A plausible slip: the step requests the next frame on entry as well as at
\* its end.
predictWebcamTwice(requested) ==
    detectionStep(Scenes, Append(requested, "predictWebcam"))

\* predictWebcam with a detector whose results are well formed.
predictWebcam(requested) == detectionStep(Scenes, requested)

(* ------------------------------------------------------------------ *)
(* useMediaPipe: setup, camera, cleanup                                *)
(* ------------------------------------------------------------------ *)

\* await FilesetResolver.forVisionTasks(...) settles.
ResolveVision ==
    /\ Idle
    /\ setupPc = "forVisionTasks"
    /\ \/ \* rejected: the catch block
          /\ error' = "models"
          /\ setupPc' = "failed"
       \/ /\ setupPc' = IF isActive THEN "createHand" ELSE "returned"
          /\ UNCHANGED error
    /\ UNCHANGED << isActive, cleanedUp, isCameraReady, handLandmarkerRef,
                    poseLandmarkerRef, stream, detectVars, rafQueue, frameRun,
                    canvasVars >>

\* await HandLandmarker.createFromOptions(...) settles.
ResolveHand ==
    /\ Idle
    /\ setupPc = "createHand"
    /\ \/ /\ error' = "models"
          /\ setupPc' = "failed"
          /\ UNCHANGED handLandmarker
       \/ /\ handLandmarker' = [handLandmarker EXCEPT !.state = "open"]
          /\ setupPc' = "createPose"
          /\ UNCHANGED error
    /\ UNCHANGED << isActive, cleanedUp, isCameraReady, handLandmarkerRef,
                    poseLandmarkerRef, stream, lastResultsRef, lastPoseRef,
                    poseLandmarker, requestRef, resultsLeft, rafQueue, frameRun,
                    canvasVars >>

\* await PoseLandmarker.createFromOptions(...) settles; when still active the
\* refs are set and startCamera is called.
ResolvePose ==
    /\ Idle
    /\ setupPc = "createPose"
    /\ \/ /\ error' = "models"
          /\ setupPc' = "failed"
          /\ UNCHANGED << handLandmarker, poseLandmarker, handLandmarkerRef,
                          poseLandmarkerRef >>
       \/ /\ ~isActive
          /\ handLandmarker' = [handLandmarker EXCEPT !.state = "closed"]
          /\ poseLandmarker' = [poseLandmarker EXCEPT !.state = "closed"]
          /\ setupPc' = "returned"
          /\ UNCHANGED << error, handLandmarkerRef, poseLandmarkerRef >>
       \/ /\ isActive
          /\ poseLandmarker' = [poseLandmarker EXCEPT !.state = "open"]
          /\ handLandmarkerRef' = TRUE
          /\ poseLandmarkerRef' = TRUE
          /\ setupPc' = "getUserMedia"
          /\ UNCHANGED << error, handLandmarker >>
    /\ UNCHANGED << isActive, cleanedUp, isCameraReady, stream, lastResultsRef,
                    lastPoseRef, requestRef, resultsLeft, rafQueue, frameRun,
                    canvasVars >>

\* await navigator.mediaDevices.getUserMedia(...) settles.
ResolveCamera ==
    /\ Idle
    /\ setupPc = "getUserMedia"
    /\ \/ /\ error' = "camera"
          /\ setupPc' = "failed"
          /\ UNCHANGED stream
       \/ /\ IF videoRef /\ isActive
             THEN stream' = "attached" /\ setupPc' = "waitLoaded"
             ELSE stream' = "acquired" /\ setupPc' = "returned"
          /\ UNCHANGED error
    /\ UNCHANGED << isActive, cleanedUp, isCameraReady, handLandmarkerRef,
                    poseLandmarkerRef, detectVars, rafQueue, frameRun, canvasVars >>

\* The video's loadeddata event: the onloadeddata handler.
LoadedData ==
    /\ Idle
    /\ setupPc = "waitLoaded"
    /\ setupPc' = "loaded"
    /\ IF isActive
       THEN isCameraReady' = TRUE /\ predictWebcam(rafQueue)
       ELSE UNCHANGED << isCameraReady, detectVars, rafQueue >>
    /\ UNCHANGED << isActive, cleanedUp, error, handLandmarkerRef,
                    poseLandmarkerRef, stream, frameRun, canvasVars >>

\* cancelAnimationFrame(requestRef.current): the latest request of the
\* detection step is the only one that can be pending.
cancelRequest(queue) == SelectSeq(queue, LAMBDA cb : cb # "predictWebcam")

closed(landmarker) == [landmarker EXCEPT !.state = "closed"]

\* A plausible slip: the cleanup forgets to clear the closure's flag.
cleanupKeepsActive ==
    /\ Idle
    /\ ~cleanedUp
    /\ cleanedUp' = TRUE
    /\ isActive' = isActive
    /\ rafQueue' = IF requestRef # 0 THEN cancelRequest(rafQueue) ELSE rafQueue
    /\ handLandmarker' = IF handLandmarkerRef THEN closed(handLandmarker)
                         ELSE handLandmarker
    /\ poseLandmarker' = IF poseLandmarkerRef THEN closed(poseLandmarker)
                         ELSE poseLandmarker
    /\ UNCHANGED << setupPc, isCameraReady, error, lastResultsRef, lastPoseRef,
                    handLandmarkerRef, poseLandmarkerRef, requestRef, stream,
                    resultsLeft, frameRun, canvasVars >>

\* The effect's cleanup function.
cleanup ==
    /\ Idle
    /\ ~cleanedUp
    /\ cleanedUp' = TRUE
    /\ isActive' = FALSE
    /\ rafQueue' = IF requestRef # 0 THEN cancelRequest(rafQueue) ELSE rafQueue
    /\ handLandmarker' = IF handLandmarkerRef THEN closed(handLandmarker)
                         ELSE handLandmarker
    /\ poseLandmarker' = IF poseLandmarkerRef THEN closed(poseLandmarker)
                         ELSE poseLandmarker
    /\ UNCHANGED << setupPc, isCameraReady, error, lastResultsRef, lastPoseRef,
                    handLandmarkerRef, poseLandmarkerRef, requestRef, stream,
                    resultsLeft, frameRun, canvasVars >>

(* ------------------------------------------------------------------ *)
(* The detector, the user, and the animation frames                    *)
(* ------------------------------------------------------------------ *)

\* The welcome screen's button: onStart sets hasStarted; the screen is gone
\* and the UI layer is rendered from then on.
Start ==
    /\ Idle
    /\ ~hasStarted
    /\ ~cleanedUp
    /\ hasStarted' = TRUE
    /\ UNCHANGED << hookVars, detectVars, rafQueue, frameRun, showSkeleton,
                    subscribers, avatar, handTrail >>

\* The skeleton button of the UI layer: the 13 SkeletonLine components mount
\* (their callbacks subscribed) or unmount.  Their meshes exist only while
\* mounted; lines holds a fresh mesh's pose for a line that is not mounted.
ToggleSkeleton ==
    /\ Idle
    /\ hasStarted
    /\ showSkeleton' = ~showSkeleton
    /\ IF showSkeleton
       THEN subscribers' = unsubscribeKind(subscribers, "SkeletonLine")
       ELSE subscribers' = subscribeAll(subscribers, SkeletonMounts)
    /\ avatar' = [avatar EXCEPT
                    !.lines = [i \in 1..Len(SkeletonLines) |-> DefaultPose]]
    /\ UNCHANGED << hookVars, detectVars, rafQueue, frameRun, hasStarted, handTrail >>

\* The browser runs an animation frame when no task is running: the callbacks
\* requested so far run, in the order of their requests, and what they request
\* is queued for the next frame.  The first callback of a frame takes the
\* queue; the others find the rest of it in frameRun.
\* A plausible slip: the callbacks of a frame run latest request first.
callbacksToRunLatestFirst ==
    IF Idle THEN [i \in 1..Len(rafQueue) |-> rafQueue[Len(rafQueue) + 1 - i]]
    ELSE frameRun

callbacksToRun == IF Idle THEN rafQueue ELSE frameRun

requestedSoFar == IF Idle THEN <<>> ELSE rafQueue

\* History of a hand rig over the frames: "unposed" until a frame first poses
\* its bones, then "shown"; "hidden" in a frame that hides a posed rig;
\* "reappeared" in the first frame that shows it again.
trailAfter(trail, visible) ==
    IF visible
    THEN (IF trail = "hidden" THEN "reappeared" ELSE "shown")
    ELSE (IF trail = "unposed" THEN "unposed" ELSE "hidden")

\* The canvas loop: it requests the next frame, then runs every subscriber in
\* order (and renders).
RunLoop ==
    /\ callbacksToRun # <<>>
    /\ Head(callbacksToRun) = "loop"
    /\ frameRun' = Tail(callbacksToRun)
    /\ rafQueue' = Append(requestedSoFar, "loop")
    /\ avatar' = runSubscribers(subscribers, 1, avatar, lastResultsRef,
                                lastPoseRef).av
    /\ handTrail' = [s \in Sides |-> trailAfter(handTrail[s], avatar'.hands[s].visible)]
    /\ UNCHANGED << hookVars, detectVars, hasStarted, showSkeleton, subscribers >>

\* The detection step as a frame callback.
RunPredictWebcam ==
    /\ callbacksToRun # <<>>
    /\ Head(callbacksToRun) = "predictWebcam"
    /\ frameRun' = Tail(callbacksToRun)
    /\ predictWebcam(requestedSoFar)
    /\ UNCHANGED << hookVars, canvasVars >>

Next ==
    \/ ResolveVision
    \/ ResolveHand
    \/ ResolvePose
    \/ ResolveCamera
    \/ LoadedData
    \/ cleanup
    \/ Start
    \/ ToggleSkeleton
    \/ RunLoop
    \/ RunPredictWebcam

Spec == Init /\ [][Next]_vars

(* ------------------------------------------------------------------ *)
(* The same program with a detector that may also return hand results  *)
(* the rigs cannot label                                                *)
(* ------------------------------------------------------------------ *)

AnyScenes == Scenes \cup UnlabelledScenes

\* The onloadeddata handler.
LoadedDataAnyResult ==
    /\ Idle
    /\ setupPc = "waitLoaded"
    /\ setupPc' = "loaded"
    /\ IF isActive
       THEN isCameraReady' = TRUE /\ detectionStep(AnyScenes, rafQueue)
       ELSE UNCHANGED << isCameraReady, detectVars, rafQueue >>
    /\ UNCHANGED << isActive, cleanedUp, error, handLandmarkerRef,
                    poseLandmarkerRef, stream, frameRun, canvasVars >>

\* The detection step as a frame callback.
RunPredictWebcamAnyResult ==
    /\ callbacksToRun # <<>>
    /\ Head(callbacksToRun) = "predictWebcam"
    /\ frameRun' = Tail(callbacksToRun)
    /\ detectionStep(AnyScenes, requestedSoFar)
    /\ UNCHANGED << hookVars, canvasVars >>

NextAnyResult ==
    \/ ResolveVision
    \/ ResolveHand
    \/ ResolvePose
    \/ ResolveCamera
    \/ LoadedDataAnyResult
    \/ cleanup
    \/ Start
    \/ ToggleSkeleton
    \/ RunLoop
    \/ RunPredictWebcamAnyResult

SpecAnyResult == Init /\ [][NextAnyResult]_vars

(* ------------------------------------------------------------------ *)
(* Properties                                                          *)
(* ------------------------------------------------------------------ *)

\* A step of the canvas loop (one render frame's callbacks).
LoopStep ==
    /\ callbacksToRun # <<>>
    /\ Head(callbacksToRun) = "loop"
    /\ UNCHANGED << hookVars, detectVars, hasStarted, showSkeleton, subscribers >>

\* The held pose result has no body to read.
NoBodyHeld == lastPoseRef = Null \/ lastPoseRef[1].landmarks = <<>>

\* The body the frame callback reads, when there is one.
HeldBody == lastPoseRef[1].landmarks[1]

\* The world position joint n is blended toward under the held body.
TargetOf(n) == mapPoseToWorld(HeldBody[JointIndex[n]])

\* C1: in every frame whose body callback finds no body snapshot (no pose
\* result, or one without landmarks), the 13 tracked joints and the two
\* derived anchors are after the frame exactly what they were before it.
C1_FreezeOnMissingBody ==
    [][ NoBodyHeld =>
          /\ avatar'.joints = avatar.joints
          /\ avatar'.shoulderMid = avatar.shoulderMid
          /\ avatar'.hipMid = avatar.hipMid ]_vars

\* A frame has consumed a result without a body (its one hand is posed) after
\* the joints had left the rest pose.
C1_Witness ==
    /\ lastPoseRef # Null
    /\ lastPoseRef[1].landmarks = <<>>
    /\ avatar.joints # RestPose
    /\ avatar.hands["Right"].handLandmarks = Some(lastResultsRef[1].landmarks[1])
    /\ ~avatar.hands["Left"].visible

\* What the consumers of the tracked joints leave behind when each has read
\* the joints in av: joint groups at the joints, non-degenerate limbs and
\* mounted lines centred between their endpoints, posed hand bones placed
\* from the wrist.
ConsumersMatch(av, skeleton) ==
    /\ \A i \in 1..Len(CyberJoints) : av.jointGroups[i] = av.joints[CyberJoints[i]]
    /\ \A i \in 1..Len(CyberLimbs) :
         LET a == av.joints[CyberLimbs[i].startPos]
             b == av.joints[CyberLimbs[i].endPos]
         IN distanceToSquared(a, b) >= 100 =>
              /\ av.limbs[i].position = midpoint(a, b)
              /\ av.limbs[i].lookDir = subVectors(b, midpoint(a, b))
    /\ skeleton =>
         \A i \in 1..Len(SkeletonLines) :
           LET a == refCurrent(av, SkeletonLines[i].start)
               b == refCurrent(av, SkeletonLines[i].end)
           IN distanceToSquared(a, b) > 1 => av.lines[i].position = midpoint(a, b)
    /\ \A s \in Sides :
         av.hands[s].visible =>
           LET hand == av.hands[s].handLandmarks[1]
               wrist == av.joints[poseWristOf(s)]
               tip == hand[1]
               knuckle ==
                 << wrist[1] - 25 * (tip.x - hand[0].x),
                    wrist[2] + 25 * (hand[0].y - tip.y),
                    wrist[3] - 25 * zOrZero(tip) >>
               base == << wrist[1], wrist[2], wrist[3] - 25 * zOrZero(hand[0]) >>
           IN av.hands[s].bones[1].position = midpoint(base, knuckle)

\* C2: in every render frame the body callback has run before any CyberJoint,
\* CyberLimb, SkeletonLine or CyberHand callback reads a tracked joint: what
\* each consumer leaves behind at the end of the frame is computed from the
\* joints of that frame, never from those of the frame before.
C2_BodyUpdateRunsFirst ==
    [][ LoopStep => ConsumersMatch(avatar', showSkeleton) ]_vars

\* A frame has moved the joints while lines are mounted and a hand is posed.
C2_Witness ==
    /\ avatar.joints # RestPose
    /\ showSkeleton
    /\ avatar.lines[1] # DefaultPose
    /\ avatar.hands["Left"].visible
    /\ avatar.hands["Left"].bones[1] # DefaultPose
    /\ \E n \in JointNames : ~NoBodyHeld /\ JointIndex[n] \in DOMAIN HeldBody
                              /\ avatar.joints[n] # TargetOf(n)
    /\ ConsumersMatch(avatar, showSkeleton)

\* The held pose result has a body with every tracked landmark index.
FullBodyHeld ==
    /\ ~NoBodyHeld
    /\ \A n \in JointNames : JointIndex[n] \in DOMAIN HeldBody

\* The offset left after a blend is a fifth of the offset before it (to the
\* rounding of one grid step).
ClosesFourFifths(before, after, target) ==
    \A k \in 1..3 :
      LET d == target[k] - before[k]
          rest == target[k] - after[k]
      IN 5 * rest - d \in -2..2

\* C3: in every frame that consumes a body snapshot with all tracked indices,
\* each tracked joint ends no farther from its mapped target than it started,
\* from any prior position: the update closes 0.8 of the remaining offset, so
\* repeated frames on the same snapshot converge monotonically.
C3_MonotoneConvergence ==
    [][ FullBodyHeld =>
          \A n \in JointNames :
            /\ distanceToSquared(avatar'.joints[n], TargetOf(n))
                 <= distanceToSquared(avatar.joints[n], TargetOf(n))
            /\ LoopStep => ClosesFourFifths(avatar.joints[n], avatar'.joints[n],
                                            TargetOf(n)) ]_vars

\* The same full snapshot has been consumed on consecutive frames: the right
\* ankle, 0.06 below its target at rest, is within 0.002 of it but not there.
C3_Witness ==
    /\ FullBodyHeld
    /\ avatar.joints.rightAnkle # TargetOf("rightAnkle")
    /\ distanceToSquared(avatar.joints.rightAnkle, TargetOf("rightAnkle")) <= 4 * 4
    /\ avatar.joints.nose # TargetOf("nose")

\* The first hand in array order whose label is side, or none.
FirstLabelled(handResults, side) ==
    IF handResults = Null THEN Null
    ELSE LET r == handResults[1]
             match == {i \in 1..Len(r.landmarks) : r.handedness[i][1].categoryName = side}
         IN IF match = {} THEN Null
            ELSE Some(r.landmarks[CHOOSE i \in match : \A k \in match : i <= k])

\* C4: in every frame the sub-rig for side S selects the first snapshot in
\* array order whose laterality label is S (none when no label is S), so of
\* two snapshots labelled "Left" and "Right" it takes the one labelled S in
\* either array order, never one with another label.
C4_HandSelectionSidePure ==
    [][ LoopStep =>
          \A s \in Sides :
            avatar'.hands[s].handLandmarks = FirstLabelled(lastResultsRef, s) ]_vars

\* A frame has consumed a result that lists the right hand first: each rig
\* holds the hand with its own label.
C4_Witness ==
    /\ lastResultsRef # Null
    /\ Len(lastResultsRef[1].landmarks) = 2
    /\ lastResultsRef[1].handedness[1][1].categoryName = "Right"
    /\ lastResultsRef[1].handedness[2][1].categoryName = "Left"
    /\ avatar.hands["Left"].handLandmarks = Some(lastResultsRef[1].landmarks[2])
    /\ avatar.hands["Right"].handLandmarks = Some(lastResultsRef[1].landmarks[1])
    /\ lastResultsRef[1].landmarks[1] # lastResultsRef[1].landmarks[2]

\* World point i of a hand attached at wrist: x and y by the offset from the
\* hand's landmark 0, z by the landmark's own depth, each times 2.5.
HandPoint(hand, wrist, i) ==
    << wrist[1] - 25 * (hand[i].x - hand[0].x),
       wrist[2] + 25 * (hand[0].y - hand[i].y),
       wrist[3] - 25 * zOrZero(hand[i]) >>

\* Bone b's pose is the stretch between its two world points and nothing else
\* (the scale is their distance, to the nearest grid step).
BoneIsFresh(bone, hand, wrist, b) ==
    LET p == HandPoint(hand, wrist, connections[b][1])
        q == HandPoint(hand, wrist, connections[b][2])
        mid == midpoint(p, q)
    IN /\ bone.position = mid
       /\ bone.lookDir = (IF q = mid THEN <<0, 0, 1>> ELSE subVectors(q, mid))
       /\ bone.rotX = 1
       /\ bone.scaleY >= 0
       /\ bone.scaleY > 0 =>
            (2 * bone.scaleY - 1) * (2 * bone.scaleY - 1) <= 4 * distanceToSquared(p, q)
       /\ 4 * distanceToSquared(p, q) < (2 * bone.scaleY + 1) * (2 * bone.scaleY + 1)

\* C5: in the first frame whose hand result has a snapshot for a side whose
\* rig was hidden, the rig's group is visible at the end of the frame and
\* every bone's pose is determined by that frame's hand snapshot and that
\* frame's wrist anchor alone.
C5_HandReappearsFresh ==
    [][ LoopStep =>
          \A s \in Sides :
            (~avatar.hands[s].visible /\ FirstLabelled(lastResultsRef, s) # Null) =>
              /\ avatar'.hands[s].visible
              /\ \A b \in 1..Len(connections) :
                   BoneIsFresh(avatar'.hands[s].bones[b],
                               FirstLabelled(lastResultsRef, s)[1],
                               avatar'.joints[poseWristOf(s)], b) ]_vars

\* A rig that had been posed and then hidden has been shown again.
C5_Witness ==
    /\ handTrail["Left"] = "reappeared"
    /\ avatar.hands["Left"].visible
    /\ avatar.hands["Left"].handLandmarks = FirstLabelled(lastResultsRef, "Left")

\* C6: a limb whose two endpoints are closer than 0.01 when its callback
\* runs (equal endpoints in particular) keeps its group position, group
\* orientation and frame scale exactly as they were after the frame before.
C6_DegenerateLimbFreezes ==
    [][ \A i \in 1..Len(CyberLimbs) :
          distanceToSquared(avatar'.joints[CyberLimbs[i].startPos],
                            avatar'.joints[CyberLimbs[i].endPos]) < 10 * 10
            => avatar'.limbs[i] = avatar.limbs[i] ]_vars

\* The left forearm's endpoints have come within 0.01 of each other and the
\* forearm still has the pose of an earlier frame, when they were apart.
C6_Witness ==
    LET a == avatar.joints.leftElbow
        b == avatar.joints.leftWrist
    IN /\ distanceToSquared(a, b) < 10 * 10
       /\ avatar.limbs[2] # DefaultLimb
       /\ avatar.limbs[2].position # midpoint(a, b)
       /\ avatar.limbs[2].scaleY >= 10

\* C7 (as claimed): the spine, every mounted skeleton line and every hand
\* bone follow the limbs' rule: a frame in which the element's two endpoints
\* are closer than 0.01 leaves its position, orientation and scale as they
\* were after the frame before.
C7_DegenerateRuleEverywhere ==
    [][ LoopStep =>
          /\ distanceToSquared(avatar'.shoulderMid, avatar'.hipMid) < 10 * 10
               => avatar'.spineRef = avatar.spineRef
          /\ showSkeleton =>
               \A i \in 1..Len(SkeletonLines) :
                 distanceToSquared(refCurrent(avatar', SkeletonLines[i].start),
                                   refCurrent(avatar', SkeletonLines[i].end)) < 10 * 10
                   => avatar'.lines[i] = avatar.lines[i]
          /\ \A s \in Sides :
               FirstLabelled(lastResultsRef, s) # Null =>
                 \A b \in 1..Len(connections) :
                   LET hand == FirstLabelled(lastResultsRef, s)[1]
                       wrist == avatar'.joints[poseWristOf(s)]
                   IN distanceToSquared(HandPoint(hand, wrist, connections[b][1]),
                                        HandPoint(hand, wrist, connections[b][2])) < 10 * 10
                        => avatar'.hands[s].bones[b] = avatar.hands[s].bones[b] ]_vars

\* The detector delivers no further result.
Stalled == resultsLeft = 0

\* C8 (as claimed): once the detector delivers no new result, the tracked
\* joints do not change on any later frame.
C8_StalledDetectorFreezesJoints ==
    [][ Stalled => avatar'.joints = avatar.joints ]_vars

\* C8 (amended): once the detector delivers no new result, both held
\* snapshots stay as they are, and every later frame reuses the held body
\* snapshot: a joint whose index it has moves no farther from the target
\* mapped from it and stays put once there, a joint whose index it lacks does
\* not move, and no joint moves when no body snapshot is held.
C8_StalledDetectorHoldsTargets ==
    [][ Stalled =>
          /\ lastPoseRef' = lastPoseRef
          /\ lastResultsRef' = lastResultsRef
          /\ NoBodyHeld => avatar'.joints = avatar.joints
          /\ ~NoBodyHeld =>
               \A n \in JointNames :
                 IF JointIndex[n] \in DOMAIN HeldBody
                 THEN /\ distanceToSquared(avatar'.joints[n], TargetOf(n))
                           <= distanceToSquared(avatar.joints[n], TargetOf(n))
                      /\ avatar.joints[n] = TargetOf(n) => avatar'.joints[n] = TargetOf(n)
                 ELSE avatar'.joints[n] = avatar.joints[n] ]_vars

\* The detector has stalled with a body snapshot held, the detection step is
\* still running, and the joints that snapshot has have reached their targets
\* while the others are where an earlier snapshot left them.
C8_Witness ==
    /\ Stalled
    /\ ~NoBodyHeld
    /\ handLandmarker.calls # poseLandmarker.calls
    /\ \A n \in JointNames :
         JointIndex[n] \in DOMAIN HeldBody => avatar.joints[n] = TargetOf(n)
    /\ avatar.joints.leftShoulder # RestPose.leftShoulder
    /\ "leftShoulder" \in JointNames /\ JointIndex.leftShoulder \notin DOMAIN HeldBody

\* A detection step in which detectForVideo threw: the hand landmarker was
\* called and no result was delivered.
DetectionThrew ==
    /\ handLandmarker'.calls # handLandmarker.calls
    /\ resultsLeft' = resultsLeft

\* C9: a detection step in which the hand or the pose detection throws leaves
\* both held snapshots exactly as they were, sets no error status, and has
\* the next detection step requested.
C9_DetectorFaultAbsorbed ==
    [][ DetectionThrew =>
          /\ lastResultsRef' = lastResultsRef
          /\ lastPoseRef' = lastPoseRef
          /\ error' = error
          /\ error' = "null"
          /\ \E i \in 1..Len(rafQueue') : rafQueue'[i] = "predictWebcam" ]_vars

\* The hand detection has thrown once more than the pose detection was
\* reached, with snapshots held and the next step requested.
C9_Witness ==
    /\ handLandmarker.calls # poseLandmarker.calls
    /\ lastResultsRef # Null
    /\ lastPoseRef # Null
    /\ error = "null"
    /\ \E i \in 1..Len(rafQueue) : rafQueue[i] = "predictWebcam"

\* C10: once the session's cleanup has run, detectForVideo is called on
\* neither landmarker and neither held snapshot is written, wherever in the
\* setup sequence the cleanup came.
C10_TeardownStopsDetection ==
    [][ cleanedUp =>
          /\ handLandmarker'.calls = handLandmarker.calls
          /\ poseLandmarker'.calls = poseLandmarker.calls
          /\ lastResultsRef' = lastResultsRef
          /\ lastPoseRef' = lastPoseRef
          /\ \A i \in 1..Len(rafQueue') : rafQueue'[i] # "predictWebcam" ]_vars

\* The cleanup came while the detection loop was running, and frames have
\* gone on since: the landmarkers are closed, the request is cancelled.
C10_Witness ==
    /\ cleanedUp
    /\ setupPc = "loaded"
    /\ lastPoseRef # Null
    /\ handLandmarker.state = "closed"
    /\ requestRef # 0
    /\ \A i \in 1..Len(rafQueue) : rafQueue[i] # "predictWebcam"
    /\ ~NoBodyHeld
    /\ \A n \in JointNames :
         JointIndex[n] \in DOMAIN HeldBody => avatar.joints[n] = TargetOf(n)

\* C11 (as claimed): once the session has ended, no camera stream is left
\* with live tracks, whether the cleanup came before getUserMedia resolved
\* (the stream is then acquired after it) or after the stream was attached
\* to the video.  stream is "acquired" or "attached" exactly while a stream
\* obtained from getUserMedia has tracks that were never stopped.
C11_TeardownReleasesCamera ==
    cleanedUp => stream \notin {"acquired", "attached"}

\* A detection step run as a frame callback in which the detectors were called.
FrameDetection ==
    /\ handLandmarker'.calls # handLandmarker.calls
    /\ setupPc' = setupPc

\* C12 (as claimed): in every frame the detection step runs before the
\* canvas loop's body update, so when a frame's detection stores a new result
\* the retargeting of that same frame is still to run and consumes it.
C12_DetectionBeforeRetargeting ==
    [][ (FrameDetection /\ resultsLeft' # resultsLeft) =>
          \E i \in 1..Len(frameRun') : frameRun'[i] = "loop" ]_vars

\* C12 (amended): the detection step and the canvas loop are separate
\* animation-frame callbacks, and in every frame the canvas loop, with the
\* body update, has run before the detection step: the detection step is the
\* last callback of its frame, the canvas loop's request for the next frame
\* is ahead of its own, and it leaves the avatar as that frame's body update
\* left it, so what it stores is first consumed in the next frame.
C12_RetargetingBeforeDetection ==
    [][ FrameDetection =>
          /\ frameRun' = <<>>
          /\ rafQueue' = <<"loop", "predictWebcam">>
          /\ avatar' = avatar ]_vars

\* A second result, a body, was stored by a frame's detection step; the
\* body update of that frame had run before it and moved no joint.
C12_Witness ==
    /\ Idle
    /\ resultsLeft <= MaxResults - 2
    /\ ~NoBodyHeld
    /\ avatar.joints = RestPose
    /\ rafQueue = <<"loop", "predictWebcam">>

\* The held body with landmark index k taken away.
HeldBodyWithout(k) == [i \in DOMAIN HeldBody \ {k} |-> HeldBody[i]]

\* Joint n went from before to after as a blend toward the landmark lm has
\* for it, or stayed where it was when lm has none.
JointFollows(n, before, after, lm) ==
    IF JointIndex[n] \in DOMAIN lm
    THEN ClosesFourFifths(before, after, mapPoseToWorld(lm[JointIndex[n]]))
    ELSE after = before

\* C13: in every frame that consumes a present body snapshot, each tracked
\* joint whose landmark index is missing keeps its position and each joint
\* whose index is present is blended toward its mapped target; the same holds
\* of the held snapshot with any one more index taken away, so a missing index
\* never stops the other joints' updates.
C13_IndexWiseOptionality ==
    [][ (LoopStep /\ ~NoBodyHeld) =>
          /\ \A n \in JointNames :
               JointFollows(n, avatar.joints[n], avatar'.joints[n], HeldBody)
          /\ \A k \in DOMAIN HeldBody :
               LET lm == HeldBodyWithout(k)
                   after == bodyUpdate(avatar, lm).joints
               IN \A n \in JointNames :
                    JointFollows(n, avatar.joints[n], after[n], lm) ]_vars

\* A snapshot without shoulders and hips has been consumed after a full one:
\* the left shoulder is where the full one left it, off its rest position,
\* while the left elbow has closed in on the partial snapshot's landmark.
C13_Witness ==
    /\ ~NoBodyHeld
    /\ JointIndex.leftShoulder \notin DOMAIN HeldBody
    /\ JointIndex.leftElbow \in DOMAIN HeldBody
    /\ avatar.joints.leftShoulder # RestPose.leftShoulder
    /\ avatar.joints.leftElbow # TargetOf("leftElbow")
    /\ distanceToSquared(avatar.joints.leftElbow, TargetOf("leftElbow")) <= 20 * 20

\* C14 (as claimed): at the end of every frame, the frames before the first
\* body snapshot included, shoulderMid is the midpoint of the two shoulder
\* joints and hipMid the midpoint of the two hip joints.
C14_DerivedAnchorsAreMidpoints ==
    [][ LoopStep =>
          /\ avatar'.shoulderMid = midpoint(avatar'.joints.leftShoulder,
                                            avatar'.joints.rightShoulder)
          /\ avatar'.hipMid = midpoint(avatar'.joints.leftHip,
                                       avatar'.joints.rightHip) ]_vars

\* The hand snapshot with d added to every landmark (a landmark without depth
\* stays without).
Shifted(hand, d) ==
    [i \in DOMAIN hand |->
       IF "z" \in DOMAIN hand[i]
       THEN [x |-> hand[i].x + d[1], y |-> hand[i].y + d[2], z |-> hand[i].z + d[3]]
       ELSE [x |-> hand[i].x + d[1], y |-> hand[i].y + d[2]]]

\* Common offsets, one along each axis, in landmark units.
CommonOffsets == {<<3, 0, 0>>, <<0, -2, 0>>, <<0, 0, 4>>}

\* C15 (as claimed): for every hand snapshot a frame attaches to a wrist
\* anchor, hand landmark 0 maps exactly onto the anchor, and the snapshot
\* with a common offset added to all 21 landmarks, on any of the three axes,
\* maps to the same world positions.
C15_HandMappingIsRelative ==
    [][ LoopStep =>
          \A s \in Sides :
            avatar'.hands[s].handLandmarks # Null =>
              LET hand == avatar'.hands[s].handLandmarks[1]
                  wrist == avatar'.joints[poseWristOf(s)]
              IN /\ worldPoints(hand, wrist)[0] = wrist
                 /\ \A d \in CommonOffsets :
                      worldPoints(Shifted(hand, d), wrist) = worldPoints(hand, wrist) ]_vars

\* The shoulders and hips of the spine scenario: (-0.2, 1.5, 0) and
\* (0.2, 1.5, 0), (-0.1, 0.9, 0) and (0.1, 0.9, 0).
SpineScenario(joints) ==
    /\ joints.leftShoulder = <<-200, 1500, 0>>
    /\ joints.rightShoulder = <<200, 1500, 0>>
    /\ joints.leftHip = <<-100, 900, 0>>
    /\ joints.rightHip = <<100, 900, 0>>

\* C16: a body update that leaves the shoulders and hips at the scenario's
\* positions leaves shoulderMid at (0, 1.5, 0) and hipMid at (0, 0.9, 0), the
\* spine at their midpoint (0, 1.2, 0) and its stretch scale at 0.54, which
\* is 0.9 of the 0.6 between the two anchors.
C16_SpineScenario ==
    [][ (LoopStep /\ ~NoBodyHeld /\ SpineScenario(avatar'.joints)) =>
          /\ avatar'.shoulderMid = <<0, 1500, 0>>
          /\ avatar'.hipMid = <<0, 900, 0>>
          /\ distanceTo(avatar'.shoulderMid, avatar'.hipMid) = 600
          /\ avatar'.spineRef.position = <<0, 1200, 0>>
          /\ avatar'.spineRef.scaleY = 540 ]_vars

\* A body update has run with the shoulders and hips at the scenario's
\* positions and has posed the spine.
C16_Witness ==
    /\ ~NoBodyHeld
    /\ SpineScenario(avatar.joints)
    /\ avatar.joints.leftElbow # RestPose.leftElbow
    /\ avatar.spineRef.position = <<0, 1200, 0>>
    /\ avatar.spineRef.scaleY = 540

\* p is the midpoint of a and b and r their distance (each to the rounding
\* of one grid step).
MidpointAndDistance(p, r, a, b) ==
    /\ \A k \in 1..3 : 2 * p[k] - (a[k] + b[k]) \in 0..1
    /\ r > 0
    /\ (2 * r - 1) * (2 * r - 1) <= 4 * distanceToSquared(a, b)
    /\ 4 * distanceToSquared(a, b) < (2 * r + 1) * (2 * r + 1)

\* Posing from a to b and from b to a: the same position, the midpoint, and
\* the same scale, the distance; each looks at its own second endpoint.
PosedSymmetrically(ab, ba, a, b) ==
    /\ ab.position = ba.position
    /\ ab.scaleY = ba.scaleY
    /\ MidpointAndDistance(ab.position, ab.scaleY, a, b)
    /\ ab.lookDir = lookDirection(ab.position, b)
    /\ ba.lookDir = lookDirection(ba.position, a)
    /\ a # b

\* C17: for every limb and every mounted skeleton line whose endpoints a, b
\* are at a non-degenerate distance in a frame, the pose the frame has set
\* from a to b and the pose from b to a have the same position, the midpoint
\* of a and b, and the same stretch scale, distance(a, b); only the look-at
\* target differs, the second endpoint in both cases.
C17_EndpointSymmetry ==
    [][ LoopStep =>
          /\ \A i \in 1..Len(CyberLimbs) :
               LET a == avatar'.joints[CyberLimbs[i].startPos]
                   b == avatar'.joints[CyberLimbs[i].endPos]
               IN ~limbDegenerate(a, b) =>
                    PosedSymmetrically(avatar'.limbs[i], limbPose(b, a), a, b)
          /\ showSkeleton =>
               \A i \in 1..Len(SkeletonLines) :
                 LET a == refCurrent(avatar', SkeletonLines[i].start)
                     b == refCurrent(avatar', SkeletonLines[i].end)
                 IN distanceToSquared(a, b) > LINE_EPSILON * LINE_EPSILON =>
                      PosedSymmetrically(avatar'.lines[i], stretchPose(b, a), a, b) ]_vars

\* A frame has posed the right forearm and, with the skeleton shown, the line
\* over it, from an elbow and a wrist that a body snapshot has moved apart
\* from their rest positions.
C17_Witness ==
    /\ showSkeleton
    /\ avatar.joints.rightElbow # RestPose.rightElbow
    /\ avatar.joints.rightElbow[3] # avatar.joints.rightWrist[3]
    /\ avatar.limbs[4] = limbPose(avatar.joints.rightElbow, avatar.joints.rightWrist)
    /\ avatar.lines[6] = stretchPose(avatar.joints.rightElbow, avatar.joints.rightWrist)
    /\ CyberLimbs[4].startPos = "rightElbow" /\ CyberLimbs[4].endPos = "rightWrist"
    /\ SkeletonLines[6].start = "rightElbow" /\ SkeletonLines[6].end = "rightWrist"

\* The held hand result has no snapshot labelled side: there is no result,
\* or it is empty, or all its labels are the other side's.
NoHandFor(side) == FirstLabelled(lastResultsRef, side) = Null

\* A hand result in which no hand was detected.
EmptyHands == [landmarks |-> <<>>, handedness |-> <<>>]

\* C18: in every frame in which no held hand snapshot matches a sub-rig's
\* side, the rig's group is not visible at the end of the frame and each of
\* its 25 bones has the position, orientation and scale it had after the
\* frame before; the rig's callback does the same to any pose the rig has
\* when it is given an empty hand result.
C18_HiddenHandRetainsPose ==
    [][ LoopStep =>
          \A s \in Sides :
            /\ NoHandFor(s) =>
                 /\ ~avatar'.hands[s].visible
                 /\ avatar'.hands[s].bones = avatar.hands[s].bones
            /\ LET r == CyberHandFrame(avatar', s, Some(EmptyHands))
               IN /\ ~r.threw
                  /\ ~r.av.hands[s].visible
                  /\ r.av.hands[s].bones = avatar'.hands[s].bones ]_vars

\* The left rig was posed by a frame and a later frame, whose hand result
\* holds a right hand only, has hidden it with its bones still posed.
C18_Witness ==
    /\ handTrail["Left"] = "hidden"
    /\ ~avatar.hands["Left"].visible
    /\ lastResultsRef # Null
    /\ Len(lastResultsRef[1].landmarks) = 1
    /\ NoHandFor("Left")
    /\ \A b \in 1..Len(connections) : avatar.hands["Left"].bones[b] # DefaultPose

\* C19 (as claimed): for every hand result the detector may hold, one whose
\* handedness list is shorter than its landmarks list or has an entry with
\* no category included, every frame's callbacks run to the end: none of them
\* throws.
C19_NoErrorEscapesFrame ==
    [][ LoopStep =>
          ~runSubscribers(subscribers, 1, avatar, lastResultsRef, lastPoseRef).threw ]_vars

\* C20 (as claimed): while hasStarted is false the hook has loaded no
\* tracking model, has not requested the camera and has run no detection
\* step: no landmarker exists, no stream was asked for or acquired, no
\* detection request was made and no snapshot is held.
C20_PipelineGatedByStart ==
    ~hasStarted =>
      /\ handLandmarker.state = "none"
      /\ poseLandmarker.state = "none"
      /\ setupPc \notin {"getUserMedia", "waitLoaded", "loaded"}
      /\ stream = "none"
      /\ ~isCameraReady
      /\ requestRef = 0
      /\ lastResultsRef = Null
      /\ lastPoseRef = Null

\* Both held snapshots are what one detection step returned, or neither is
\* held yet.
HeldFromOneStep ==
    \/ lastResultsRef = Null /\ lastPoseRef = Null
    \/ \E scene \in Scenes :
         lastResultsRef = Some(scene.hands) /\ lastPoseRef = Some(scene.pose)

\* C21: the held hand snapshot and the held pose snapshot always come from
\* the same detection step, a detection step replacing both or neither, and
\* in every render frame the body update and both hand sub-rigs consume what
\* one and the same detection step returned (or nothing, before the first).
C21_SnapshotPairAtomicity ==
    [][ /\ HeldFromOneStep
        /\ HeldFromOneStep'
        /\ (lastResultsRef' # lastResultsRef) <=> (lastPoseRef' # lastPoseRef)
        /\ LoopStep =>
             \/ /\ lastResultsRef = Null /\ lastPoseRef = Null
                /\ avatar'.joints = avatar.joints
                /\ \A s \in Sides : avatar'.hands[s].handLandmarks = Null
             \/ \E scene \in Scenes :
                  /\ lastResultsRef = Some(scene.hands) /\ lastPoseRef = Some(scene.pose)
                  /\ \A s \in Sides :
                       avatar'.hands[s].handLandmarks = FirstLabelled(Some(scene.hands), s)
                  /\ IF scene.pose.landmarks = <<>>
                     THEN avatar'.joints = avatar.joints
                     ELSE \A n \in JointNames :
                            JointFollows(n, avatar.joints[n], avatar'.joints[n],
                                         scene.pose.landmarks[1]) ]_vars

\* A frame has consumed the second result the detector delivered, a partial
\* body and its two hands listed right hand first, after detection steps in
\* which the hand detection threw.
C21_Witness ==
    /\ Idle
    /\ resultsLeft <= MaxResults - 2
    /\ handLandmarker.calls # poseLandmarker.calls
    /\ lastPoseRef = Some([landmarks |-> <<BodyPartial>>])
    /\ lastResultsRef # Null
    /\ lastResultsRef[1].handedness[1][1].categoryName = "Right"
    /\ avatar.hands["Right"].handLandmarks = Some(lastResultsRef[1].landmarks[1])
    /\ avatar.joints.rightElbow # RestPose.rightElbow

RECURSIVE PendingIn(_)
\* How many requests of the detection step a queue of callbacks holds.
PendingIn(queue) ==
    IF queue = <<>> THEN 0
    ELSE (IF Head(queue) = "predictWebcam" THEN 1 ELSE 0) + PendingIn(Tail(queue))

\* The invocations of the detection step that are pending: requested for the
\* next frame, or still to run in the frame that is running.
PendingDetections == PendingIn(rafQueue) + PendingIn(frameRun)

\* The loop was started (the loadeddata handler has called predictWebcam)
\* and the session has not been torn down.
LoopRunning == isCameraReady /\ isActive

\* C22: from the loop's start until the session's teardown exactly one next
\* invocation of the detection step is pending, whatever the steps so far did
\* (detected, skipped a video of zero size, or threw), so the loop does not
\* stop on its own; and never is more than one pending.
C22_DetectionLoopKeepsGoing ==
    /\ PendingDetections <= 1
    /\ LoopRunning => PendingDetections = 1

\* The loop is running with its next step pending after steps in which the
\* hand detection threw and after the detector has stopped delivering.
C22_Witness ==
    /\ LoopRunning
    /\ Idle
    /\ PendingDetections = 1
    /\ handLandmarker.calls # poseLandmarker.calls
    /\ resultsLeft = 0

\* setupMediaPipe and startCamera have run to their end: setup failed,
\* returned early, or the loop was started.
SetupFinished == setupPc \in {"failed", "returned", "loaded"}

\* C23 (as claimed): once the session has been torn down and setup has
\* finished, no landmarker that was created is left open, whatever the
\* interleaving of cleanup and setup and also when the pose landmarker's
\* creation failed after the hand landmarker's succeeded.
C23_NoLandmarkerLeak ==
    (cleanedUp /\ SetupFinished) =>
      /\ handLandmarker.state # "open"
      /\ poseLandmarker.state # "open"

\* The box x in [-0.8, 0.8], y in [0, 2.0].
InBox(p) == p[1] \in -800..800 /\ p[2] \in 0..2000

\* Landmarks at the four corners of the normalized image.
CornerLandmarks == {lm3(x, y, 0) : x \in {0, 100}, y \in {0, 100}}

\* C24: after every frame of every sequence of body snapshots with x and y in
\* [0, 1], each tracked joint is inside the box x in [-0.8, 0.8], y in
\* [0, 2.0], and an update from where it is toward a landmark at any corner of
\* the normalized image leaves it inside.
C24_JointsStayInBox ==
    /\ \A c \in CornerLandmarks : InBox(mapPoseToWorld(c))
    /\ \A n \in JointNames :
         /\ InBox(avatar.joints[n])
         /\ \A c \in CornerLandmarks :
              InBox(update(avatar.joints[n], JointIndex[n] :> c, JointIndex[n]))

\* Frames on a full body snapshot have moved every joint off the rest pose:
\* the left wrist has crossed to the other half of the box and the right
\* ankle has risen from its rest height.
C24_Witness ==
    /\ ~NoBodyHeld
    /\ \A n \in JointNames : avatar.joints[n] # RestPose[n]
    /\ avatar.joints.leftWrist[1] > 0
    /\ avatar.joints.rightAnkle[2] > RestPose.rightAnkle[2]
    /\ \A n \in JointNames : InBox(avatar.joints[n])

====
